---- MODULE Spec2Model ----
(***************************************************************************)
(* A model of stream-locate-converter: src/src/stream.rs (Stream, the      *)
(* incremental line index over a forward-only reader) and                  *)
(* src/src/location.rs (Offset, line_column::ZeroBased / OneBased).        *)
(*                                                                         *)
(* Indices of the code are zero-based; TLA+ sequences are one-based, so    *)
(* the code's xs[i] is written xs[i + 1] here.                             *)
(*                                                                         *)
(* The reader is any std::io::Read over a finite, reliable byte source: a  *)
(* read returns between 1 and min(buffer size, bytes left) bytes while     *)
(* bytes are left and 0 afterwards.  Read failures are not modelled.       *)
(***************************************************************************)
EXTENDS Integers, Sequences, FiniteSets, TLC

\* ---------------------------------------------------------------- bounds
\* Longest source, in bytes.
MaxLen == 4
\* Largest buffer size given to Stream::new.
MaxBuf == 2
\* Width in bits of the machine integer (usize) of the location model.
WordBits == 3

\* The line-feed byte b'\n'.
LF == 10

\* The bytes of a source: the line feed and one byte that is not a line feed.
Bytes == {LF, 97}

Sources == UNION {[1..n -> Bytes] : n \in 0..MaxLen}

Min(a, b) == IF a <= b THEN a ELSE b

\* ------------------------------------------------------- values returned
\* io::Result<T>: Ok carries (a, b): a position (line, column), an offset
\* (offset, 0) or unit (0, 0); Err carries the message of io_error.
Ok(a, b) == [ok |-> TRUE, a |-> a, b |-> b, err |-> ""]
Err(msg) == [ok |-> FALSE, a |-> 0, b |-> 0, err |-> msg]

\* Option<usize> of binary_search_between, with the number of iterations of
\* its loop (steps) and whether it indexed xs out of bounds (panic).
None == [some |-> FALSE, val |-> 0, steps |-> 0, panic |-> FALSE]
Some(i) == [some |-> TRUE, val |-> i, steps |-> 0, panic |-> FALSE]

\* xs[i] of a slice panics when i is not an index of xs.
OutOfBounds == [some |-> FALSE, val |-> 0, steps |-> 0, panic |-> TRUE]
InBounds(xs, i) == 0 <= i /\ i < Len(xs)

\* One more iteration of the loop.
Iterated(r) == [r EXCEPT !.steps = @ + 1]

\* ------------------------------------------------ binary_search_between
\* The while loop with x <= xs[end] in place of x < xs[end] in its base case.
RECURSIVE SearchLoop_inclusive_end(_, _, _, _)
SearchLoop_inclusive_end(xs, x, start, end) ==
  IF ~(start < end) THEN None
  ELSE Iterated(
    IF start = end - 1 /\ ~InBounds(xs, start) THEN OutOfBounds
    ELSE IF start = end - 1 /\ xs[start + 1] <= x /\ ~InBounds(xs, end) THEN OutOfBounds
    ELSE IF start = end - 1 /\ xs[start + 1] <= x /\ x <= xs[end + 1] THEN Some(start)
    ELSE LET mid == start + ((end - start) \div 2)
         IN  IF ~InBounds(xs, mid) THEN OutOfBounds
             ELSE LET y == xs[mid + 1]
                  IN  IF x = y THEN Some(mid)
                      ELSE IF x < y THEN SearchLoop_inclusive_end(xs, x, start, mid)
                      ELSE IF start = mid THEN None
                      ELSE SearchLoop_inclusive_end(xs, x, mid, end))

\* The while loop of binary_search_between, on the code's zero-based start
\* and end; the conditions of the base case are evaluated left to right, as
\* && does.
RECURSIVE SearchLoop(_, _, _, _)
SearchLoop(xs, x, start, end) ==
  IF ~(start < end) THEN None
  ELSE Iterated(
    IF start = end - 1 /\ ~InBounds(xs, start) THEN OutOfBounds
    ELSE IF start = end - 1 /\ xs[start + 1] <= x /\ ~InBounds(xs, end) THEN OutOfBounds
    ELSE IF start = end - 1 /\ xs[start + 1] <= x /\ x < xs[end + 1] THEN Some(start)
    ELSE LET mid == start + ((end - start) \div 2)
         IN  IF ~InBounds(xs, mid) THEN OutOfBounds
             ELSE LET y == xs[mid + 1]
                  IN  IF x = y THEN Some(mid)
                      ELSE IF x < y THEN SearchLoop(xs, x, start, mid)
                      ELSE IF start = mid THEN None
                      ELSE SearchLoop(xs, x, mid, end))

\* binary_search_between without the case x == 0.
binary_search_between_no_zero_case(xs, x) ==
  IF Len(xs) = 0 THEN None
  ELSE SearchLoop(xs, x, 0, Len(xs) - 1)

binary_search_between(xs, x) ==
  IF Len(xs) = 0 THEN None
  ELSE IF x = 0 THEN Some(0)
  ELSE SearchLoop(xs, x, 0, Len(xs) - 1)

\* ---------------------------------------------------------------- state
VARIABLES
  source,        \* the bytes behind the reader, fixed for the stream's life
  short_reads,   \* whether the reader may return fewer bytes than asked for
  reader,        \* Stream.reader: the number of bytes the reader has handed out
  buffer_size,   \* Stream.buffer.len(), set by Stream::new
  lines,         \* Stream.lines
  next_offset,   \* Stream.next_offset
  current_line,  \* Stream.current_line
  exhausted,     \* history: some call of forward has returned 0
  last,          \* history: the last public call, its arguments and what it returned
  prev,          \* history: the call before last, kept when last was given its result
  twin,          \* a second Stream over the same source, and what its last call returned
  loc,           \* the last call of the location module (location.rs)
  search,        \* a call of binary_search_between: its table, its target, its result
  cost,          \* history: the calls of line_index made and the calls of forward they made
  call           \* the public call that is running, and where its loop stands

vars == <<source, short_reads, reader, buffer_size, lines, next_offset,
          current_line, exhausted, last, prev, twin, loc, search, cost, call>>

streamVars == <<source, short_reads, reader, buffer_size, lines, next_offset,
                current_line, exhausted, last, prev, twin, search, cost, call>>

\* The mutable part of a Stream as one value, for the operators below.
Self ==
  [reader |-> reader, buffer_size |-> buffer_size, lines |-> lines,
   next_offset |-> next_offset, current_line |-> current_line,
   exhausted |-> exhausted]

\* Stream::new: no byte is read.
New(size) ==
  [reader |-> 0, buffer_size |-> size, lines |-> <<0>>, next_offset |-> 0,
   current_line |-> 0, exhausted |-> FALSE]

\* What a call returns and the stream it leaves: res is the value returned,
\* s the stream afterwards, scans the number of calls of forward it made.
Outcome(res, s, scans) == [res |-> res, s |-> s, scans |-> scans]

\* A panic of the call (an index out of range, an arithmetic overflow).
Panic(s, scans) == Outcome(Err("panic"), s, scans)

\* ------------------------------------------------------------ the reader
\* A read into one byte of the buffer, self.buffer[..1], whatever its size.
ReadSizes_one_byte(s) ==
  IF Len(source) - s.reader = 0 \/ s.buffer_size = 0 THEN {0} ELSE {1}

\* self.reader.read(&mut self.buffer): the byte counts the read may return.
ReadSizes(s) ==
  LET left == Len(source) - s.reader
      most == Min(s.buffer_size, left)
  IN  IF most = 0 THEN {0}
      ELSE IF short_reads THEN 1..most
      ELSE {most}

\* The for loop of forward pushing next_offset + offset, the offset of the line
\* feed itself, in place of the start of the next line.
RECURSIVE ScanBuffer_line_feed_offset(_, _, _, _)
ScanBuffer_line_feed_offset(st, buf, offset, n) ==
  IF offset >= n THEN st
  ELSE IF buf[offset + 1] = LF
       THEN ScanBuffer_line_feed_offset(
              [st EXCEPT !.current_line = @ + 1,
                         !.lines = Append(@, st.next_offset + offset)],
              buf, offset + 1, n)
       ELSE ScanBuffer_line_feed_offset(st, buf, offset + 1, n)

\* The for loop of forward over the first n bytes of the buffer, from index
\* offset on: st holds lines and current_line so far.
RECURSIVE ScanBuffer(_, _, _, _)
ScanBuffer(st, buf, offset, n) ==
  IF offset >= n THEN st
  ELSE IF buf[offset + 1] = LF
       THEN ScanBuffer([st EXCEPT !.current_line = @ + 1,
                                  !.lines = Append(@, st.next_offset + offset + 1)],
                       buf, offset + 1, n)
       ELSE ScanBuffer(st, buf, offset + 1, n)

\* forward without self.next_offset += n: the offsets pushed stay those of the
\* first chunk.
forward_keeps_offset(s, n) ==
  LET buf == SubSeq(source, s.reader + 1, s.reader + n)
      scanned == ScanBuffer(s, buf, 0, n)
  IN  [scanned EXCEPT !.reader = @ + n,
                      !.exhausted = @ \/ n = 0]

\* forward with self.next_offset += self.buffer.len() in place of n.
forward_adds_buffer_len(s, n) ==
  LET buf == SubSeq(source, s.reader + 1, s.reader + n)
      scanned == ScanBuffer(s, buf, 0, n)
  IN  [scanned EXCEPT !.reader = @ + n,
                      !.next_offset = @ + s.buffer_size,
                      !.exhausted = @ \/ n = 0]

\* Stream::forward when the read returns n bytes.
forward(s, n) ==
  LET buf == SubSeq(source, s.reader + 1, s.reader + n)
      scanned == ScanBuffer(s, buf, 0, n)
  IN  [scanned EXCEPT !.reader = @ + n,
                      !.next_offset = @ + n,
                      !.exhausted = @ \/ n = 0]

\* ------------------------------------------------------ the public calls
\* The end of line_of's loop with offset <= next_offset in place of <.
LineAtEof_inclusive(t, offset, scans) ==
  IF offset <= t.next_offset
  THEN Outcome(Ok(t.current_line, 0), t, scans)
  ELSE Outcome(Err("Invalid offset, exceed EOF"), t, scans)

\* The end of line_of's loop answering lines.len() in place of current_line.
LineAtEof_len(t, offset, scans) ==
  IF offset < t.next_offset
  THEN Outcome(Ok(Len(t.lines), 0), t, scans)
  ELSE Outcome(Err("Invalid offset, exceed EOF"), t, scans)

\* The end of line_of's loop, once forward has returned 0 and left stream t.
LineAtEof(t, offset, scans) ==
  IF offset < t.next_offset
  THEN Outcome(Ok(t.current_line, 0), t, scans)
  ELSE Outcome(Err("Invalid offset, exceed EOF"), t, scans)

\* The loop of Stream::line_of, entered with the lower search bound begin
\* after scans calls of forward: the set of outcomes, one per way the reader
\* may split its reads.  The index the search returns is an index of the
\* slice lines[begin..], and the code returns it as it is.
RECURSIVE LineOfLoop(_, _, _, _)
LineOfLoop(s, offset, begin, scans) ==
  LET n == Len(s.lines)
  IN  IF begin > n THEN {Panic(s, scans)}
      ELSE
        LET found == binary_search_between(SubSeq(s.lines, begin + 1, n), offset)
            next_begin == IF n > 0 THEN n - 1 ELSE begin
        IN  IF found.panic THEN {Panic(s, scans)}
            ELSE IF found.some THEN {Outcome(Ok(found.val, 0), s, scans)}
            ELSE UNION {
                   LET t == forward(s, k)
                   IN  IF k = 0
                       THEN {LineAtEof(t, offset, scans + 1)}
                       ELSE LineOfLoop(t, offset, next_begin, scans + 1)
                   : k \in ReadSizes(s)}

\* line_of that calls forward once before its first search.
line_of_eager(s, offset) ==
  UNION {LineOfLoop(forward(s, k), offset, 0, 1) : k \in ReadSizes(s)}

\* Stream::line_of.
line_of(s, offset) == LineOfLoop(s, offset, 0, 0)

\* line_index with a one-based column: offset - line_offset + 1.
LineIndexOf_one_based_column(o, offset) ==
  IF ~o.res.ok THEN o
  ELSE LET line == o.res.a
       IN  IF line >= Len(o.s.lines) THEN Panic(o.s, o.scans)
           ELSE IF o.s.lines[line + 1] > offset THEN Panic(o.s, o.scans)
           ELSE Outcome(Ok(line, offset - o.s.lines[line + 1] + 1), o.s, o.scans)

\* Stream::line_index on one outcome of line_of: lines.get(line).unwrap() and
\* offset - line_offset, each of which panics when it cannot be computed.
LineIndexOf(o, offset) ==
  IF ~o.res.ok THEN o
  ELSE LET line == o.res.a
       IN  IF line >= Len(o.s.lines) THEN Panic(o.s, o.scans)
           ELSE IF o.s.lines[line + 1] > offset THEN Panic(o.s, o.scans)
           ELSE Outcome(Ok(line, offset - o.s.lines[line + 1]), o.s, o.scans)

\* Stream::line_index (the spec's position_of).
line_index(s, offset) == {LineIndexOf(o, offset) : o \in line_of(s, offset)}

\* The loop of Stream::offset_of.
RECURSIVE OffsetOfLoop(_, _, _, _)
OffsetOfLoop(s, line, col, scans) ==
  IF line < Len(s.lines)
  THEN {Outcome(Ok(s.lines[line + 1] + col, 0), s, scans)}
  ELSE UNION {
         LET t == forward(s, k)
         IN  IF k = 0
             THEN {Outcome(Err("Invalid line index"), t, scans + 1)}
             ELSE OffsetOfLoop(t, line, col, scans + 1)
         : k \in ReadSizes(s)}

\* offset_of with the column cut to the bytes scanned so far.
offset_of_checked_column(s, line, col) ==
  {IF o.res.ok
   THEN Outcome(Ok(Min(o.res.a, o.s.next_offset), 0), o.s, o.scans)
   ELSE o
   : o \in OffsetOfLoop(s, line, col, 0)}

\* offset_of with a line beyond the table clamped to the last line known, in
\* place of the error.
offset_of_clamped_line(s, line, col) ==
  {IF o.res.ok
   THEN o
   ELSE Outcome(Ok(o.s.lines[Len(o.s.lines)] + col, 0), o.s, o.scans)
   : o \in OffsetOfLoop(s, line, col, 0)}

\* offset_of that puts the stream back as it found it when it fails.
offset_of_rollback(s, line, col) ==
  {IF o.res.ok THEN o ELSE Outcome(o.res, s, o.scans)
   : o \in OffsetOfLoop(s, line, col, 0)}

\* Stream::offset_of.
offset_of(s, line, col) == OffsetOfLoop(s, line, col, 0)

\* The loop of Stream::drain.
RECURSIVE DrainLoop(_, _)
DrainLoop(s, scans) ==
  UNION {
    LET t == forward(s, k)
    IN  IF k = 0 THEN {Outcome(Ok(0, 0), t, scans + 1)}
        ELSE DrainLoop(t, scans + 1)
    : k \in ReadSizes(s)}

\* drain with one call of forward in place of the loop.
drain_one_step(s) == {Outcome(Ok(0, 0), forward(s, k), 1) : k \in ReadSizes(s)}

\* Stream::drain.
drain(s) == DrainLoop(s, 0)

\* ------------------------------------------------------------- location
\* usize values of the location model, and usize::MAX.
Word == 2 ^ WordBits
Usize == 0..(Word - 1)
UsizeMax == Word - 1

\* A value of the location module: kind is "zero" (ZeroBased), "one"
\* (OneBased), "none" (Option::None) or "panic"; from_line and from_column are
\* the arguments it was made from.
Loc(op, kind, line, column, from_line, from_column) ==
  [op |-> op, kind |-> kind, line |-> line, column |-> column,
   from_line |-> from_line, from_column |-> from_column]

NoLoc == Loc("none", "none", 0, 0, 0, 0)

\* NonZeroUsize::new(n).is_some().
NonZeroNew(n) == n # 0

\* OneBased::new(line, column).
OneBased_new(line, column) ==
  IF NonZeroNew(line) /\ NonZeroNew(column)
  THEN Loc("OneBased::new", "one", line, column, line, column)
  ELSE Loc("OneBased::new", "none", 0, 0, line, column)

\* ZeroBased::one_based: self.line + 1 and self.column + 1 handed to
\* NonZeroUsize::new_unchecked.  At usize::MAX the addition panics in a build
\* with overflow checks and wraps to 0 in one without, where new_unchecked(0)
\* is undefined behaviour: the value with a 0 in it is what such a build holds.
one_based(line, column) ==
  IF line = UsizeMax \/ column = UsizeMax
  THEN {Loc("one_based", "panic", 0, 0, line, column),
        Loc("one_based", "one", (line + 1) % Word, (column + 1) % Word, line, column)}
  ELSE {Loc("one_based", "one", line + 1, column + 1, line, column)}

\* OneBased::zero_based: self.line.get() - 1 and self.column.get() - 1.
zero_based(line, column) ==
  IF line = 0 \/ column = 0
  THEN {Loc("zero_based", "panic", 0, 0, line, column),
        Loc("zero_based", "zero", (line + Word - 1) % Word, (column + Word - 1) % Word,
            line, column)}
  ELSE {Loc("zero_based", "zero", line - 1, column - 1, line, column)}

\* ---------------------------------------------------------------- calls
\* The arguments the calls are given: offsets and line indices, up to one more
\* than the largest offset and line count of a source.
Args == 0..(MaxLen + 1)

\* The columns offset_of is given: every column within a line of a source, and
\* with them columns beyond the end of every line but a longest one.
Cols == 0..(MaxLen - 1)

\* A call: its name and arguments (a, b), what it returned, the calls of forward
\* it made, and whether the stream was exhausted when it was made.
Call(op, a, b, res, scans, eof) ==
  [op |-> op, a |-> a, b |-> b, res |-> res, scans |-> scans, eof |-> eof]

NoCall == Call("new", 0, 0, Ok(0, 0), 0, FALSE)

\* The stream's fields written through &mut self, left as in s.
Writes(s) ==
  /\ reader' = s.reader
  /\ lines' = s.lines
  /\ next_offset' = s.next_offset
  /\ current_line' = s.current_line
  /\ exhausted' = s.exhausted

\* The stream's fields after a call with outcome o.
Becomes(o) ==
  /\ Writes(o.s)
  /\ UNCHANGED <<source, short_reads, buffer_size, loc, search, cost, call>>

\* No call of binary_search_between yet.
NoSearch == [xs |-> <<>>, x |-> 0, res |-> None, done |-> FALSE]

\* No call of line_index counted yet: queries counts the calls, scans the calls
\* of forward they made, zeros those of them that returned 0.
NoCost == [scans |-> 0, zeros |-> 0, queries |-> 0]

\* A public call whose loop is running (active) or has returned: op, a and b
\* are its name and arguments, begin the lower search bound of line_of, from
\* the bytes the reader had given when the call was made, res what it returned.
Run(op, a, b, begin, from, active, res) ==
  [op |-> op, a |-> a, b |-> b, begin |-> begin, from |-> from,
   active |-> active, res |-> res]

NoRun == Run("new", 0, 0, 0, 0, FALSE, Ok(0, 0))

\* The second stream: s is the Stream, res what its last call returned.
Twin(s, res) == [s |-> s, res |-> res]

InitStream ==
  /\ source \in Sources
  /\ short_reads \in BOOLEAN
  /\ buffer_size \in 1..MaxBuf
  /\ reader = New(buffer_size).reader
  /\ lines = New(buffer_size).lines
  /\ next_offset = New(buffer_size).next_offset
  /\ current_line = New(buffer_size).current_line
  /\ exhausted = FALSE
  /\ last = NoCall
  /\ prev = NoCall
  /\ loc = NoLoc
  /\ cost = NoCost
  /\ call = NoRun

\* One stream: the second one is never used.
Init ==
  /\ InitStream
  /\ twin = Twin(New(buffer_size), NoCall.res)
  /\ search = NoSearch

\* A call of Stream::line_index(Offset(offset)).
LineIndex ==
  \E offset \in Args :
    \E o \in line_index(Self, offset) :
      /\ Becomes(o)
      /\ last' = Call("line_index", offset, 0, o.res, o.scans, exhausted)
      /\ prev' = IF last.op = "offset_of" /\ last.res.ok /\ last.res.a = offset
                 THEN last ELSE NoCall
      /\ UNCHANGED twin

\* A call of Stream::offset_of(ZeroBased::new(line, col)).
OffsetOf ==
  \E line \in Args, col \in Cols :
    \E o \in offset_of(Self, line, col) :
      /\ Becomes(o)
      /\ last' = Call("offset_of", line, col, o.res, o.scans, exhausted)
      /\ prev' = IF /\ last.op = "line_index"
                    /\ last.res.ok
                    /\ last.res.a = line
                    /\ last.res.b = col
                 THEN last ELSE NoCall
      /\ UNCHANGED twin

\* A call of Stream::drain().
Drain ==
  \E o \in drain(Self) :
    /\ Becomes(o)
    /\ last' = Call("drain", 0, 0, o.res, o.scans, exhausted)
    /\ prev' = NoCall
    /\ UNCHANGED twin

Next == LineIndex \/ OffsetOf \/ Drain

Spec == Init /\ [][Next]_vars

\* Two streams over the same source, built with buffer sizes of their own and
\* given the same calls in the same order.
TwinInit ==
  /\ InitStream
  /\ \E size \in 1..MaxBuf : twin = Twin(New(size), NoCall.res)
  /\ search = NoSearch

TwinLineIndex ==
  \E offset \in Args :
    \E o \in line_index(Self, offset), o2 \in line_index(twin.s, offset) :
      /\ Becomes(o)
      /\ last' = Call("line_index", offset, 0, o.res, o.scans, exhausted)
      /\ twin' = Twin(o2.s, o2.res)
      /\ prev' = NoCall

TwinOffsetOf ==
  \E line \in Args, col \in Cols :
    \E o \in offset_of(Self, line, col), o2 \in offset_of(twin.s, line, col) :
      /\ Becomes(o)
      /\ last' = Call("offset_of", line, col, o.res, o.scans, exhausted)
      /\ twin' = Twin(o2.s, o2.res)
      /\ prev' = NoCall

TwinDrain ==
  \E o \in drain(Self), o2 \in drain(twin.s) :
    /\ Becomes(o)
    /\ last' = Call("drain", 0, 0, o.res, o.scans, exhausted)
    /\ twin' = Twin(o2.s, o2.res)
    /\ prev' = NoCall

TwinNext == TwinLineIndex \/ TwinOffsetOf \/ TwinDrain

TwinSpec == TwinInit /\ [][TwinNext]_vars

\* ------------------------------------------------- the loops, step by step
\* The exit test of the three loops with the comparison left out: forward's
\* count is never taken for the end of the source.
AtEof_never(n) == FALSE

\* self.forward()? == 0, the exit test of the loops of offset_of, line_of and
\* drain.
AtEof(n) == n = 0

\* The public calls one loop iteration at a time.  A call is begun on the
\* stream as the calls before it left it, with any argument; the next call is
\* begun when it has returned.
BeginLineIndex ==
  /\ ~call.active
  /\ \E offset \in Args :
       call' = Run("line_index", offset, 0, 0, reader, TRUE, Ok(0, 0))
  /\ UNCHANGED <<source, short_reads, reader, buffer_size, lines, next_offset,
                 current_line, exhausted, last, prev, twin, loc, search, cost>>

BeginOffsetOf ==
  /\ ~call.active
  /\ \E line \in Args, col \in Cols :
       call' = Run("offset_of", line, col, 0, reader, TRUE, Ok(0, 0))
  /\ UNCHANGED <<source, short_reads, reader, buffer_size, lines, next_offset,
                 current_line, exhausted, last, prev, twin, loc, search, cost>>

BeginDrain ==
  /\ ~call.active
  /\ call' = Run("drain", 0, 0, 0, reader, TRUE, Ok(0, 0))
  /\ UNCHANGED <<source, short_reads, reader, buffer_size, lines, next_offset,
                 current_line, exhausted, last, prev, twin, loc, search, cost>>

\* The running call returns with outcome o.
Returns(o) ==
  /\ Writes(o.s)
  /\ call' = [call EXCEPT !.active = FALSE, !.res = o.res]

\* The running call goes round its loop once more, on stream t.
Continues(t, begin) ==
  /\ Writes(t)
  /\ call' = [call EXCEPT !.begin = begin]

\* One iteration of the loop of line_of; line_index finishes the call when the
\* loop breaks.
LineOfStep ==
  /\ call.active
  /\ call.op = "line_index"
  /\ LET n == Len(lines)
         offset == call.a
     IN  IF call.begin > n THEN Returns(Panic(Self, 0))
         ELSE
           LET found == binary_search_between(SubSeq(lines, call.begin + 1, n), offset)
               next_begin == IF n > 0 THEN n - 1 ELSE call.begin
           IN  IF found.panic THEN Returns(Panic(Self, 0))
               ELSE IF found.some
               THEN Returns(LineIndexOf(Outcome(Ok(found.val, 0), Self, 0), offset))
               ELSE \E k \in ReadSizes(Self) :
                      LET t == forward(Self, k)
                      IN  IF AtEof(k)
                          THEN Returns(LineIndexOf(LineAtEof(t, offset, 0), offset))
                          ELSE Continues(t, next_begin)
  /\ UNCHANGED <<source, short_reads, buffer_size, last, prev, twin, loc, search, cost>>

\* One iteration of the loop of offset_of.
OffsetOfStep ==
  /\ call.active
  /\ call.op = "offset_of"
  /\ IF call.a < Len(lines)
     THEN Returns(Outcome(Ok(lines[call.a + 1] + call.b, 0), Self, 0))
     ELSE \E k \in ReadSizes(Self) :
            LET t == forward(Self, k)
            IN  IF AtEof(k)
                THEN Returns(Outcome(Err("Invalid line index"), t, 0))
                ELSE Continues(t, call.begin)
  /\ UNCHANGED <<source, short_reads, buffer_size, last, prev, twin, loc, search, cost>>

\* One iteration of the loop of drain.
DrainStep ==
  /\ call.active
  /\ call.op = "drain"
  /\ \E k \in ReadSizes(Self) :
       LET t == forward(Self, k)
       IN  IF AtEof(k)
           THEN Returns(Outcome(Ok(0, 0), t, 0))
           ELSE Continues(t, call.begin)
  /\ UNCHANGED <<source, short_reads, buffer_size, last, prev, twin, loc, search, cost>>

LoopNext ==
  \/ BeginLineIndex
  \/ BeginOffsetOf
  \/ BeginDrain
  \/ LineOfStep
  \/ OffsetOfStep
  \/ DrainStep

\* A call that is running runs on: the thread that made it executes the next
\* iteration of its loop.  Nothing obliges the caller to make another call.
LoopFair ==
  /\ WF_vars(LineOfStep)
  /\ WF_vars(OffsetOfStep)
  /\ WF_vars(DrainStep)

LoopSpec == Init /\ [][LoopNext]_vars /\ LoopFair

\* Calls of line_index with strictly increasing offsets on a fresh stream whose
\* reader fills the buffer whenever enough bytes are left, with the calls of
\* forward counted.  A call of forward on an exhausted stream returns 0, and a
\* call that exhausts the stream made one call of forward that returned 0.
ScanInit == Init /\ ~short_reads

ScanLineIndex ==
  \E offset \in Args :
    /\ last.op = "new" \/ offset > last.a
    /\ \E o \in line_index(Self, offset) :
         /\ Writes(o.s)
         /\ last' = Call("line_index", offset, 0, o.res, o.scans, exhausted)
         /\ cost' = [scans |-> cost.scans + o.scans,
                     zeros |-> cost.zeros + (IF exhausted THEN o.scans
                                             ELSE IF o.s.exhausted THEN 1 ELSE 0),
                     queries |-> cost.queries + 1]
         /\ UNCHANGED <<source, short_reads, buffer_size, prev, twin, loc, search, call>>

ScanNext == ScanLineIndex

ScanSpec == ScanInit /\ [][ScanNext]_vars

\* binary_search_between on its own, on every strictly increasing table of
\* offsets up to MaxLen and every target: the stream is left as constructed.
RECURSIVE SortedSeq(_)
SortedSeq(S) ==
  IF S = {} THEN <<>>
  ELSE LET least == CHOOSE m \in S : \A k \in S : m <= k
       IN  <<least>> \o SortedSeq(S \ {least})

Tables == {SortedSeq(S) : S \in SUBSET (0..MaxLen)}

SearchInit ==
  /\ InitStream
  /\ source = <<>>
  /\ ~short_reads
  /\ buffer_size = 1
  /\ twin = Twin(New(buffer_size), NoCall.res)
  /\ \E xs \in Tables, x \in Args :
       search = [xs |-> xs, x |-> x, res |-> None, done |-> FALSE]

\* The call binary_search_between(&xs, x).
Search ==
  /\ ~search.done
  /\ search' = [search EXCEPT !.res = binary_search_between(search.xs, search.x),
                              !.done = TRUE]
  /\ UNCHANGED <<source, short_reads, reader, buffer_size, lines, next_offset,
                 current_line, exhausted, last, prev, twin, loc, cost, call>>

SearchNext == Search

SearchSpec == SearchInit /\ [][SearchNext]_vars

\* The location module on its own: the stream is left as constructed.
LocInit == Init /\ source = <<>> /\ ~short_reads /\ buffer_size = 1

ZeroBasedNew ==
  \E line \in Usize, column \in Usize :
    /\ loc' = Loc("ZeroBased::new", "zero", line, column, line, column)
    /\ UNCHANGED streamVars

OneBasedNew ==
  \E line \in Usize, column \in Usize :
    /\ loc' = OneBased_new(line, column)
    /\ UNCHANGED streamVars

ToOneBased ==
  /\ loc.kind = "zero"
  /\ loc' \in one_based(loc.line, loc.column)
  /\ UNCHANGED streamVars

ToZeroBased ==
  /\ loc.kind = "one"
  /\ loc' \in zero_based(loc.line, loc.column)
  /\ UNCHANGED streamVars

LocNext == ZeroBasedNew \/ OneBasedNew \/ ToOneBased \/ ToZeroBased

LocSpec == LocInit /\ [][LocNext]_vars

\* ------------------------------------------------------- the true table
\* The complete line-start table of the first m bytes of src: 0, followed by
\* p + 1 for each line feed at an offset p < m, in ascending order.
RECURSIVE StartsUpTo(_, _)
StartsUpTo(src, m) ==
  IF m = 0 THEN <<0>>
  ELSE LET r == StartsUpTo(src, m - 1)
       IN  IF src[m] = LF THEN Append(r, m) ELSE r

\* L, the complete line-start table of the source, and its number of lines.
TrueLines == StartsUpTo(source, Len(source))
NumLines == Len(TrueLines)

\* The start of line l, and the offset just after its last byte (its line feed
\* included).
LineStart(l) == TrueLines[l + 1]
LineEnd(l) == IF l + 1 < NumLines THEN TrueLines[l + 2] ELSE Len(source)

\* The line that holds offset o < Len(source).
TrueLine(o) == CHOOSE i \in 0..(NumLines - 1) : LineStart(i) <= o /\ o < LineEnd(i)

\* ---------------------------------------------------------------- claims

\* C1: for every offset o smaller than the source length, in every state of
\* the stream, line_index(o) returns (i, o - L[i]) with i the line of the
\* complete table L that holds o.  The code returns the index of the slice
\* lines[begin..] instead of the index of the table: TLC finds this violated.
C1_PositionOfIsTrueLine ==
  (last.op = "line_index" /\ last.a < Len(source))
    => last.res = Ok(TrueLine(last.a), last.a - LineStart(TrueLine(last.a)))

\* C2: for every line l of the source and every column c, also one beyond the
\* end of the line, offset_of((l, c)) returns L[l] + c.
C2_OffsetOfIsStartPlusColumn ==
  (last.op = "offset_of" /\ last.a < NumLines)
    => last.res = Ok(LineStart(last.a) + last.b, 0)

\* C2's case: a line that was not in the table when the call was made, and a
\* column beyond the end of that line.
C2_Witness ==
  /\ last.op = "offset_of"
  /\ last.a >= 1
  /\ last.a < NumLines
  /\ last.scans >= 2
  /\ LineStart(last.a) + last.b > LineEnd(last.a)
  /\ last.res.ok

\* C3: offset_of(position_of(o)) = o for every offset o smaller than the
\* source length: a call of offset_of given the position that the call of
\* line_index(o) just before it returned, returns o.
C3_RoundTripOffset ==
  (last.op = "offset_of" /\ prev.op = "line_index" /\ prev.a < Len(source))
    => last.res = Ok(prev.a, 0)

\* C3's case: the round trip of an offset in a line that line_index had to
\* scan for, in a source of several lines.
C3_Witness ==
  /\ last.op = "offset_of"
  /\ prev.op = "line_index"
  /\ prev.a < Len(source)
  /\ prev.scans >= 2
  /\ TrueLine(prev.a) >= 1
  /\ last.res = Ok(prev.a, 0)

\* C4: position_of(offset_of((l, c))) = (l, c) for every line l of the source
\* and every column c within line l: a call of line_index given the offset
\* that the call of offset_of((l, c)) just before it returned, returns (l, c).
\* TLC finds this violated, by the slice index of C1.
C4_RoundTripPosition ==
  (/\ last.op = "line_index"
   /\ prev.op = "offset_of"
   /\ prev.a < NumLines
   /\ LineStart(prev.a) + prev.b < LineEnd(prev.a))
    => last.res = Ok(prev.a, prev.b)

\* C5 as stated: for every offset o at or beyond the end of the source,
\* line_index(o) fails with the out-of-range error, the source scanned to
\* exhaustion.  TLC finds this violated by offset 0 on the empty source.
C5_Original ==
  (last.op = "line_index" /\ last.a >= Len(source))
    => /\ last.res = Err("Invalid offset, exceed EOF")
       /\ exhausted
       /\ next_offset = Len(source)

\* C5 as amended: for every offset o >= 1 at or beyond the end of the source,
\* line_index(o) fails with the out-of-range error, the source scanned to
\* exhaustion; line_index(0) returns (0, 0) on every source, the empty one
\* included, without a scan step.
C5_OutOfRange ==
  /\ (last.op = "line_index" /\ last.a >= Len(source) /\ last.a >= 1)
       => /\ last.res = Err("Invalid offset, exceed EOF")
          /\ exhausted
          /\ next_offset = Len(source)
  /\ (last.op = "line_index" /\ last.a = 0)
       => /\ last.res = Ok(0, 0)
          /\ last.scans = 0

\* C5's case: an offset at the very end of a source of several lines, which
\* line_index scanned for in several steps before it failed.
C5_Witness ==
  /\ last.op = "line_index"
  /\ last.a = Len(source)
  /\ NumLines >= 2
  /\ last.scans >= 3
  /\ ~last.res.ok

\* C6: offset_of((l, c)) fails, with the invalid-position error, exactly when
\* l is not smaller than the number of lines of the source; when it fails the
\* source has been scanned to exhaustion.
C6_InvalidPosition ==
  last.op = "offset_of"
    => /\ ~last.res.ok <=> last.a >= NumLines
       /\ ~last.res.ok
            => /\ last.res = Err("Invalid line index")
               /\ exhausted
               /\ next_offset = Len(source)
               /\ reader = Len(source)

\* C6's case: the first line index that does not exist, in a source of
\* several lines that offset_of scanned in several steps before it failed.
C6_Witness ==
  /\ last.op = "offset_of"
  /\ last.a = NumLines
  /\ NumLines >= 2
  /\ last.scans >= 3
  /\ ~last.eof
  /\ ~last.res.ok

\* C7: the buffer size never changes a result: two streams over the same
\* source, built with any two buffer sizes and given the same calls, return the
\* same values and errors.  TLC finds this violated: the slice index of C1
\* shows only when the table grows in several scan steps during one call.
C7_SameResults == last.res = twin.res

\* C8: in every reachable state the line-start table is non-empty, its entry 0
\* is 0 and it is strictly increasing.
C8_TableIncreasing ==
  /\ Len(lines) >= 1
  /\ lines[1] = 0
  /\ \A i \in 1..Len(lines), j \in 1..Len(lines) : i < j => lines[i] < lines[j]

\* C8's case: a table of several lines, grown in several scan steps.
C8_Witness ==
  /\ Len(lines) >= 3
  /\ last.op # "new"
  /\ last.scans >= 2

\* C9: once a call of forward has returned 0, every later call of forward
\* returns 0 and no later call changes lines, next_offset or current_line.
C9_ExhaustedIsTerminal ==
  [][exhausted => /\ ReadSizes(Self) = {0}
                  /\ exhausted'
                  /\ lines' = lines
                  /\ next_offset' = next_offset
                  /\ current_line' = current_line
                  /\ reader' = reader]_vars

\* C9's case: a call made on an exhausted stream over a source of several
\* lines, which called forward again.
C9_Witness ==
  /\ exhausted
  /\ last.eof
  /\ last.scans >= 1
  /\ Len(lines) >= 2

\* C10: OneBased::new(l, c) is None when l = 0 or c = 0, and
\* ZeroBased::one_based yields (line + 1, column + 1), both at least 1, for
\* every zero-based position, usize::MAX included.  TLC finds this violated at
\* usize::MAX, where the addition overflows.
C10_OneBasedPositive ==
  /\ (loc.op = "OneBased::new" /\ (loc.from_line = 0 \/ loc.from_column = 0))
       => loc.kind = "none"
  /\ loc.op = "one_based"
       => /\ loc.kind = "one"
          /\ loc.line >= 1
          /\ loc.column >= 1
  /\ loc.kind = "one" => (loc.line >= 1 /\ loc.column >= 1)

\* C11: the result of line_index(o) does not depend on what was done on the
\* stream before: it is the result on a fresh stream over the same source,
\* and a call repeated right away returns what the first call returned.  TLC
\* finds this violated: the slice index of C1 depends on how much of the
\* table was known when the call began.
C11_HistoryIndependent ==
  [][last'.op = "line_index"
       => /\ \A o \in line_index(New(buffer_size), last'.a) : o.res = last'.res
          /\ (last.op = "line_index" /\ last.a = last'.a) => last'.res = last.res]_vars

\* C12: in every reachable state the table is exactly 0 followed by p + 1 for
\* each line feed at an offset p < next_offset, in ascending order, and
\* current_line is the number of those line feeds, lines.len() - 1;
\* next_offset is the number of bytes the reader has handed out.
C12_TableIsScannedPrefix ==
  /\ next_offset = reader
  /\ next_offset <= Len(source)
  /\ lines = StartsUpTo(source, next_offset)
  /\ current_line = Len(lines) - 1

\* C12's case: a source of 4 bytes of which 3 are scanned with a buffer of 2
\* bytes, so that some read returned fewer bytes than the buffer holds while
\* more were left, and several lines are known.
C12_Witness ==
  /\ short_reads
  /\ buffer_size = 2
  /\ Len(source) = 4
  /\ next_offset = 3
  /\ Len(lines) >= 3

\* s is a prefix of t.
IsPrefix(s, t) == Len(s) <= Len(t) /\ SubSeq(t, 1, Len(s)) = s

\* C13: every call, successful or failing, leaves the previous table as a
\* prefix of the new one and never decreases next_offset or current_line; a
\* call that fails keeps what it scanned: the table it leaves is the complete
\* table of the source.
C13_AppendOnly ==
  [][/\ IsPrefix(lines, lines')
     /\ next_offset' >= next_offset
     /\ current_line' >= current_line
     /\ ~last'.res.ok => (lines' = TrueLines /\ next_offset' = Len(source))]_vars

\* C13's case: a failing call on a fresh stream with a buffer of one byte,
\* which scanned the whole source, of several lines, before it failed.
C13_Witness ==
  /\ ~last.res.ok
  /\ ~short_reads
  /\ buffer_size = 1
  /\ last.scans = Len(source) + 1
  /\ Len(lines) >= 3
  /\ lines = TrueLines

\* C15: on the empty source the table stays [0] after any sequence of calls,
\* line_index(0) returns (0, 0) and line_index(o) fails for every o > 0.
C15_EmptySource ==
  source = <<>>
    => /\ lines = <<0>>
       /\ next_offset = 0
       /\ last.op = "line_index"
            => last.res = IF last.a = 0 THEN Ok(0, 0)
                          ELSE Err("Invalid offset, exceed EOF")

\* C15's case: line_index(0) on the empty source, called once earlier calls
\* have exhausted it.
C15_Witness ==
  /\ source = <<>>
  /\ last.op = "line_index"
  /\ last.a = 0
  /\ last.eof
  /\ last.res.ok

\* C16: drain() called in any state returns Ok and leaves the stream
\* exhausted: next_offset is the length of the source, the reader has nothing
\* left to hand out and the table holds the start of every line.
C16_DrainCompletes ==
  last.op = "drain"
    => /\ last.res = Ok(0, 0)
       /\ exhausted
       /\ next_offset = Len(source)
       /\ reader = Len(source)
       /\ lines = TrueLines
       /\ ReadSizes(Self) = {0}

\* C16's case: drain() on a stream that was not exhausted, over a source of
\* several lines, scanned in several steps.
C16_Witness ==
  /\ last.op = "drain"
  /\ ~last.eof
  /\ last.scans >= 3
  /\ Len(lines) >= 3

\* C18: a call the known table answers reads nothing: offset_of((l, c)) with
\* l < lines.len() and line_index(o) with o smaller than the last known line
\* start make no scan step and leave the reader, the table, next_offset and
\* current_line as they were; Stream::new reads no byte.
C18_KnownAnswerReadsNothing ==
  /\ last.op = "new" => (reader = 0 /\ next_offset = 0 /\ lines = <<0>> /\ ~exhausted)
  /\ [][(\/ last'.op = "offset_of" /\ last'.a < Len(lines)
         \/ last'.op = "line_index" /\ last'.a < lines[Len(lines)])
          => /\ last'.scans = 0
             /\ last'.res.ok
             /\ UNCHANGED <<reader, lines, next_offset, current_line, exhausted>>]_vars

\* C18's case: line_index of an offset below the last known line start, on a
\* stream that has bytes left to read.
C18_Witness ==
  /\ last.op = "line_index"
  /\ last.a >= 1
  /\ last.a < lines[Len(lines)]
  /\ last.scans = 0
  /\ reader < Len(source)

\* C19: line_index never panics: the line that line_of returns is an index of
\* the table with lines[line] <= offset, and the lower bound begin never
\* exceeds lines.len().
C19_NoPanic ==
  /\ last.res.err # "panic"
  /\ (last.op = "line_index" /\ last.res.ok)
       => /\ last.res.a < Len(lines)
          /\ lines[last.res.a + 1] <= last.a
          /\ last.res.b = last.a - lines[last.res.a + 1]

\* C19's case: a call that searched a slice lines[begin..] with begin > 0 and
\* returned a line that is not the line of the offset.
C19_Witness ==
  /\ last.op = "line_index"
  /\ last.res.ok
  /\ last.a < Len(source)
  /\ last.scans >= 2
  /\ last.res.a # TrueLine(last.a)

\* C14: binary_search_between on a strictly increasing table xs and a target
\* x: an empty table yields None; target 0 yields interval 0; for any other
\* target it returns i when xs[i] <= x < xs[i+1], and only then, and None
\* when x is at or beyond the last entry of xs; it never indexes out of bounds
\* and its loop ends within xs.len() iterations, also for a target below xs[0].
C14_LocateInterval ==
  search.done =>
    LET xs == search.xs
        x == search.x
        r == search.res
        n == Len(xs)
        Holds(i) == xs[i + 1] <= x /\ x < xs[i + 2]
    IN  /\ ~r.panic
        /\ r.steps <= n
        /\ n = 0 => ~r.some
        /\ (n > 0 /\ x = 0) => (r.some /\ r.val = 0)
        /\ (n > 0 /\ x > 0) =>
             /\ \A i \in 0..(n - 2) : Holds(i) => (r.some /\ r.val = i)
             /\ x >= xs[n] => ~r.some
             /\ r.some => (r.val \in 0..(n - 2) /\ Holds(r.val))

\* C14's case: a target found in an interval that is not the first one, of a
\* table of four entries or more, after several iterations of the loop.
C14_Witness ==
  /\ search.done
  /\ Len(search.xs) >= 4
  /\ search.res.some
  /\ search.res.val >= 2
  /\ search.res.steps >= 2
  /\ search.xs[search.res.val + 1] < search.x

\* a / b rounded up.
CeilDiv(a, b) == (a + b - 1) \div b

\* C17 as stated: k calls of line_index with strictly increasing offsets make
\* at most ceil(n / buffer_size) + 1 calls of forward in total.  TLC finds
\* this violated: each call for an offset at or beyond the last line start
\* calls forward once more on the exhausted stream.
C17_Original == cost.scans <= CeilDiv(Len(source), buffer_size) + 1

\* C17 as amended: k calls of line_index with strictly increasing offsets make
\* at most ceil(n / buffer_size) calls of forward that read bytes, and at most
\* one call of forward that returns 0 per call of line_index: at most
\* ceil(n / buffer_size) + k in total.
C17_ScanBound ==
  /\ cost.scans - cost.zeros <= CeilDiv(Len(source), buffer_size)
  /\ cost.zeros <= cost.queries
  /\ cost.scans <= CeilDiv(Len(source), buffer_size) + cost.queries

\* C17's case: three calls that each end with a call of forward returning 0,
\* the first of which scanned a source of three bytes or more.
C17_Witness ==
  /\ cost.queries >= 3
  /\ cost.zeros = cost.queries
  /\ Len(source) >= 3
  /\ cost.scans = CeilDiv(Len(source), buffer_size) + cost.queries

\* What the loops return step by step is what the calls return as a whole: a
\* returned call left the stream, and returned the value, of one of the
\* outcomes of the call on a stream that had read call.from bytes.
Returned(op) == ~call.active /\ call.op = op

LoopAgreesWithCalls ==
  /\ Returned("drain") => (exhausted /\ reader = Len(source) /\ call.res = Ok(0, 0))
  /\ Returned("offset_of") =>
       IF call.res.ok
       THEN call.a < Len(lines) /\ call.res.a = lines[call.a + 1] + call.b
       ELSE exhausted /\ call.a >= Len(lines)
  /\ Returned("line_index") =>
       IF call.res.ok
       THEN call.res.a < Len(lines) /\ call.res.b = call.a - lines[call.res.a + 1]
       ELSE exhausted /\ call.a >= next_offset

\* C20: every call of line_index, offset_of and drain returns, with a value or
\* an io::Error and without a panic, whatever the source, the buffer size, the
\* stream the calls before it left and its arguments, when every read returns
\* at least one byte until the source ends.
C20_CallsReturn ==
  call.active ~> (~call.active /\ call.res.err # "panic")

\* C20's case: a call made on a fresh stream that went round its loop once per
\* byte of a source of three bytes or more, and once more, and returned.
C20_Witness ==
  /\ ~call.active
  /\ call.op \in {"line_index", "offset_of", "drain"}
  /\ call.from = 0
  /\ buffer_size = 1
  /\ Len(source) >= 3
  /\ reader = Len(source)
  /\ exhausted

====
